---- MODULE Spec2Model ----
(***************************************************************************)
(* typed-restana-app: the typed route handler of src/core/typed-app.ts.    *)
(*                                                                         *)
(* A request is dispatched by the HTTP server to the function returned by  *)
(* createValidatedHandler.  That function is async: everything up to the   *)
(* `await config.handler(...)` runs in one synchronous step, the business  *)
(* handler then runs (it may suspend, so its effects are separate steps),  *)
(* and the rest of the function (success path or catch block) runs in one  *)
(* synchronous step after the handler has settled.  A handler that does    *)
(* not suspend is the behaviour in which its steps follow each other       *)
(* without anything in between.                                            *)
(***************************************************************************)
EXTENDS Integers, Sequences, FiniteSets, TLC

NumReqs == 2
ReqIds == 1..NumReqs

(***************************************************************************)
(* JavaScript values.  An optional boolean property of an object literal   *)
(* is "absent" (no such key), "undef" (key present, value undefined),      *)
(* "true" or "false".                                                      *)
(***************************************************************************)
Opt == {"absent", "undef", "true", "false"}
Bool(b) == IF b THEN "true" ELSE "false"
\* reading a property: an absent key reads as undefined
Read(v) == IF v = "absent" THEN "undef" ELSE v
\* the `in` operator
HasKey(v) == v # "absent"
\* a ?? b
Coalesce(a, b) == IF a = "undef" THEN b ELSE a
\* a value used as a condition
Truthy(v) == v = "true"

\* payloads and handler results: undefined, a plain object with some keys, an array
Keys == {"name", "extraField"}
KeyOrder == <<"name", "extraField">>
Undefined == [kind |-> "undefined", keys |-> {}]
Obj(ks) == [kind |-> "object", keys |-> ks]
Arr == [kind |-> "array", keys |-> {}]
\* x || {}
OrEmpty(d) == IF d.kind = "undefined" THEN Obj({}) ELSE d

\* zod schemas: none configured, z.object({name: z.string()}), z.array(...);
\* shape holds the required keys of an object schema, optional its optional keys
NoSchema == [kind |-> "none", shape |-> {}, optional |-> {}]
UserSchema == [kind |-> "object", shape |-> {"name"}, optional |-> {}]
ListSchema == [kind |-> "array", shape |-> {}, optional |-> {}]
HasSchema(s) == s.kind # "none"
\* 'strict' in schema: only object schemas have strict() and passthrough()
HasStrict(s) == s.kind = "object"
HasPassthrough(s) == s.kind = "object"

\* thrown values
NoThrow == [type |-> "none", message |-> "", details |-> <<>>]
ErrorOf(t, m, ds) == [type |-> t, message |-> m, details |-> ds]
\* error instanceof Error
InstanceOfError(e) == e.type \in {"Error", "TypeError", "ValidationError"}
\* error instanceof ValidationError
InstanceOfValidationError(e) == e.type = "ValidationError"

Contexts == {"query", "params", "body"}
\* `Validation failed for ${context}`
ValidationMessage(context) ==
  CASE context = "query" -> "Validation failed for query"
    [] context = "params" -> "Validation failed for params"
    [] context = "body" -> "Validation failed for body"
    [] context = "response (200)" -> "Validation failed for response (200)"
\* `response (${statusCode})`
ResponseContext(statusCode) ==
  CASE statusCode = 200 -> "response (200)"
\* error.message.includes('response (')
IncludesResponseParen(m) ==
  m \in {"Validation failed for response (200)", "bad response (upstream)"}
GenericMessage == "An unexpected error occurred"

(***************************************************************************)
(* createTypedApp: the app configuration.                                  *)
(***************************************************************************)
createAppConfig(config, env) ==
  LET dev == Bool(env = "development")
      defaults == [strict |-> Coalesce(Read(config.strict), dev),
                   validateResponses |-> Coalesce(Read(config.validateResponses), dev),
                   logValidationErrors |-> Coalesce(Read(config.logValidationErrors), "true")]
  IN  \* ...config: every key of config overrides, also one whose value is undefined
      [k \in DOMAIN defaults |-> IF HasKey(config[k]) THEN config[k] ELSE defaults[k]]

(***************************************************************************)
(* zod: schema.strict() / schema.passthrough() followed by safeParse.      *)
(* mode "strip" is what a plain z.object does; the app never uses it.      *)
(***************************************************************************)
IssueMessage(code) ==
  IF code = "unrecognized_keys" THEN "Unrecognized key" ELSE "Invalid input"

\* safeParse of the plain schema, which strips the keys it does not declare
safeParseStripping(schema, mode, data) ==
  IF data.kind # "object"
  THEN [issues |-> <<[code |-> "invalid_type", path |-> "", keys |-> {}]>>, data |-> data]
  ELSE [issues |-> [i \in 1..Len(SelectSeq(KeyOrder, LAMBDA k : k \in schema.shape /\ k \notin data.keys)) |->
                      [code |-> "invalid_type",
                       path |-> SelectSeq(KeyOrder, LAMBDA k : k \in schema.shape /\ k \notin data.keys)[i],
                       keys |-> {}]],
        data |-> Obj(data.keys \cap schema.shape)]

safeParse(schema, mode, data) ==
  IF data.kind # "object"
  THEN [issues |-> <<[code |-> "invalid_type", path |-> "", keys |-> {}]>>, data |-> data]
  ELSE LET missing == SelectSeq(KeyOrder, LAMBDA k : k \in schema.shape /\ k \notin data.keys)
           extra == data.keys \ (schema.shape \cup schema.optional)
           fieldIssues == [i \in 1..Len(missing) |->
                             [code |-> "invalid_type", path |-> missing[i], keys |-> {}]]
           keyIssues == IF mode = "strict" /\ extra # {}
                        THEN <<[code |-> "unrecognized_keys", path |-> "", keys |-> extra]>>
                        ELSE <<>>
       IN [issues |-> fieldIssues \o keyIssues,
           data |-> IF mode = "passthrough" THEN data
                    ELSE Obj(data.keys \cap (schema.shape \cup schema.optional))]

(***************************************************************************)
(* validateData.  Returns what it threw (NoThrow when it returned), the    *)
(* returned data, the console output and the record of the call.           *)
(***************************************************************************)
\* a step of the adapter, as recorded in the history of a request
Step(name) ==
  [step |-> name, context |-> "", flag |-> "", data |-> Undefined, schema |-> NoSchema]

\* the app-level value taking precedence over the route's
shouldBeStrictAppFirst(app, strict) == Coalesce(app.strict, strict)
shouldBeStrict(app, strict) == Coalesce(strict, app.strict)

\* the outcome of safeParse, with the warning logged whatever logValidationErrors is
parseOutcomeAlwaysLogging(app, data, context, call, result) ==
  IF result.issues # <<>>
  THEN [threw |-> ErrorOf("ValidationError", ValidationMessage(context),
                          [i \in 1..Len(result.issues) |->
                             [path |-> result.issues[i].path,
                              message |-> IssueMessage(result.issues[i].code),
                              keys |-> result.issues[i].keys,
                              value |-> data]]),
        data |-> data,
        log |-> <<[level |-> "warn", text |-> ValidationMessage(context)]>>,
        trace |-> call \o <<Step("warn")>>]
  ELSE [threw |-> NoThrow, data |-> result.data, log |-> <<>>, trace |-> call]

\* lines 117-135: the outcome of safeParse
parseOutcome(app, data, context, call, result) ==
  IF result.issues # <<>>
  THEN [threw |-> ErrorOf("ValidationError", ValidationMessage(context),
                          [i \in 1..Len(result.issues) |->
                             [path |-> result.issues[i].path,
                              message |-> IssueMessage(result.issues[i].code),
                              keys |-> result.issues[i].keys,
                              value |-> data]]),
        data |-> data,
        log |-> IF Truthy(app.logValidationErrors)
                THEN <<[level |-> "warn", text |-> ValidationMessage(context)]>>
                ELSE <<>>,
        trace |-> call \o (IF Truthy(app.logValidationErrors) THEN <<Step("warn")>> ELSE <<>>)]
  ELSE [threw |-> NoThrow, data |-> result.data, log |-> <<>>, trace |-> call]

\* lines 111-115: the schema used; calling the missing passthrough() is a TypeError
validateStrictly(app, data, schema, context, call, useStrict) ==
  IF ~useStrict /\ ~HasPassthrough(schema)
  THEN [threw |-> ErrorOf("TypeError", "schema.passthrough is not a function", <<>>),
        data |-> data, log |-> <<>>, trace |-> call]
  ELSE parseOutcome(app, data, context, call,
                    safeParse(schema, IF useStrict THEN "strict" ELSE "passthrough", data))

\* validateData that never selects schema.strict()
validateDataLenient(app, data, schema, context, strict) ==
  validateStrictly(app, data, schema, context,
                   <<[step |-> "validateData", context |-> context,
                      flag |-> shouldBeStrict(app, strict), data |-> data,
                      schema |-> schema]>>,
                   FALSE)

validateData(app, data, schema, context, strict) ==
  validateStrictly(app, data, schema, context,
                   <<[step |-> "validateData", context |-> context,
                      flag |-> shouldBeStrict(app, strict), data |-> data,
                      schema |-> schema]>>,
                   Truthy(shouldBeStrict(app, strict)) /\ HasStrict(schema))

(***************************************************************************)
(* validateResponse: whatever validateData throws is caught, logged when   *)
(* logValidationErrors is on, and rethrown only in development; otherwise  *)
(* the original data is returned.                                          *)
(***************************************************************************)
responseOutcome(app, env, data, v) ==
  IF v.threw.type = "none" THEN v
  ELSE [threw |-> IF env = "development" THEN v.threw ELSE NoThrow,
        data |-> data,
        log |-> v.log \o (IF Truthy(app.logValidationErrors)
                          THEN <<[level |-> "error", text |-> "Response validation failed"]>>
                          ELSE <<>>),
        trace |-> v.trace]

validateResponse(app, env, data, schema, statusCode, strict) ==
  responseOutcome(app, env, data,
                  validateData(app, data, schema, ResponseContext(statusCode), strict))

(***************************************************************************)
(* The response object of the HTTP server: headersSent, statusCode and,    *)
(* as history, every write made to it (who wrote, and whether the headers  *)
(* had already been sent when the write was made).                         *)
(***************************************************************************)
NewResponse == [headersSent |-> FALSE, statusCode |-> 200, writes |-> <<>>]
DataBody(d) == [error |-> "", message |-> "", details |-> <<>>, data |-> d]
ErrorBody(e, m, ds) == [error |-> e, message |-> m, details |-> ds, data |-> Undefined]
\* res.send(body, code, headers)
send(res, by, body, code) ==
  [headersSent |-> TRUE,
   statusCode |-> code,
   writes |-> Append(res.writes, [by |-> by, status |-> code, body |-> body,
                                  headersWereSent |-> res.headersSent])]

(***************************************************************************)
(* createValidatedHandler, up to the call of the business handler:         *)
(* the route's overrides and the validation of query, params and body.     *)
(***************************************************************************)
routeStrict(config) == IF HasKey(config.strict) THEN config.strict ELSE "undef"
routeValidateResponse(app, config) ==
  IF HasKey(config.validateResponse) THEN config.validateResponse
  ELSE app.validateResponses

\* the inputs validated body first
InputOrderBodyFirst == <<"body", "query", "params">>
InputOrder == <<"query", "params", "body">>

\* one input validated: stop at a throw, else go on with the next input
RECURSIVE validateFrom(_, _, _, _, _)
validated(app, config, request, i, acc, c, v) ==
  IF v.threw.type # "none"
  THEN [threw |-> v.threw, ctx |-> acc.ctx, log |-> acc.log \o v.log,
        trace |-> acc.trace \o v.trace]
  ELSE validateFrom(app, config, request, i + 1,
                    [threw |-> NoThrow, ctx |-> [acc.ctx EXCEPT ![c] = v.data],
                     log |-> acc.log \o v.log, trace |-> acc.trace \o v.trace])

validateInput(app, config, request, i, acc, c) ==
  IF HasSchema(config.schema[c])
  THEN validated(app, config, request, i, acc, c,
                 validateData(app, OrEmpty(request[c]), config.schema[c], c,
                              routeStrict(config)))
  ELSE validateFrom(app, config, request, i + 1,
                    [acc EXCEPT !.ctx = [acc.ctx EXCEPT ![c] = OrEmpty(request[c])]])

validateFrom(app, config, request, i, acc) ==
  IF i > Len(InputOrder) THEN acc
  ELSE validateInput(app, config, request, i, acc, InputOrder[i])

NoCtx == [query |-> Undefined, params |-> Undefined, body |-> Undefined]
validateInputs(app, config, request) ==
  validateFrom(app, config, request, 1,
               [threw |-> NoThrow, ctx |-> NoCtx, log |-> <<>>, trace |-> <<>>])

(***************************************************************************)
(* createValidatedHandler, after the business handler has returned.        *)
(***************************************************************************)
\* the schema of the highest declared status code instead of that of 200
responseSchemaOfAnyStatus(config) ==
  IF DOMAIN config.schema.responses = {} THEN NoSchema
  ELSE config.schema.responses[CHOOSE c \in DOMAIN config.schema.responses :
                                 \A d \in DOMAIN config.schema.responses : d <= c]
\* config.schema.responses[200]?.schema
responseSchema(config) ==
  IF 200 \in DOMAIN config.schema.responses THEN config.schema.responses[200] ELSE NoSchema

\* the status of a success taken to be 200 whatever the response object says
statusAlways200(code) == 200
\* res.statusCode || 200
statusOr200(code) == IF code = 0 THEN 200 ELSE code

\* the handler's result sent as it was returned
responseDataAsReturned(result) == result
\* lines 209-214: an undefined result becomes {}
responseDataOf(result) == IF result.kind = "undefined" THEN Obj({}) ELSE result
substituted(result) == IF result.kind = "undefined" THEN <<Step("substitute")>> ELSE <<>>

validates(app, config) ==
  /\ Truthy(routeValidateResponse(app, config))
  /\ DOMAIN config.schema.responses # {}
  /\ HasSchema(responseSchema(config))

\* the success response sent twice
sendDataTwice(res, data, log, trace) ==
  [threw |-> NoThrow,
   res |-> send(send(res, "adapter", DataBody(data), statusOr200(res.statusCode)),
                "adapter", DataBody(data), statusOr200(res.statusCode)),
   log |-> log,
   trace |-> trace \o <<Step("send"), Step("send")>>]
\* lines 224-228
sendData(res, data, log, trace) ==
  [threw |-> NoThrow,
   res |-> send(res, "adapter", DataBody(data), statusOr200(res.statusCode)),
   log |-> log,
   trace |-> trace \o <<Step("send")>>]

\* lines 220-228: the response was validated
sendValidated(res, t1, v) ==
  IF v.threw.type # "none"
  THEN [threw |-> v.threw, res |-> res, log |-> v.log, trace |-> t1 \o v.trace]
  ELSE sendData(res, v.data, v.log, t1 \o v.trace)

\* lines 216-228
sendResponseData(app, env, config, res, t1, responseData) ==
  IF validates(app, config)
  THEN sendValidated(res, t1,
                     validateResponse(app, env, responseData, responseSchema(config), 200,
                                      routeStrict(config)))
  ELSE sendData(res, responseData, <<>>, t1)

\* the success path without its check of res.headersSent
sendResultUnguarded(app, env, config, res, result) ==
  sendResponseData(app, env, config, res, substituted(result), responseDataOf(result))

\* lines 207-229
sendResult(app, env, config, res, result) ==
  IF res.headersSent
  THEN [threw |-> NoThrow, res |-> res, log |-> <<>>, trace |-> <<>>]
  ELSE sendResponseData(app, env, config, res, substituted(result), responseDataOf(result))

(***************************************************************************)
(* createValidatedHandler, the catch block.  res.send of the error body    *)
(* does not throw, so the inner try block is all that runs of lines        *)
(* 263-283.                                                                *)
(***************************************************************************)
\* the catch block without its first check of res.headersSent
handleErrorUnguarded(res, error) ==
  IF InstanceOfValidationError(error)
  THEN IF IncludesResponseParen(error.message)
       THEN [res |-> send(res, "adapter",
                          ErrorBody("Response validation failed", error.message, error.details), 500),
             log |-> <<>>, trace |-> <<Step("catch"), Step("send")>>]
       ELSE [res |-> send(res, "adapter",
                          ErrorBody("Validation failed", error.message, error.details), 400),
             log |-> <<>>, trace |-> <<Step("catch"), Step("send")>>]
  ELSE IF ~res.headersSent
  THEN [res |-> send(res, "adapter",
                     ErrorBody("Internal Server Error",
                               IF InstanceOfError(error) THEN error.message ELSE GenericMessage,
                               <<>>), 500),
        log |-> <<>>, trace |-> <<Step("catch"), Step("send")>>]
  ELSE [res |-> res, log |-> <<>>, trace |-> <<Step("catch")>>]

handleError(res, error) ==
  IF res.headersSent
  THEN [res |-> res,
        log |-> <<[level |-> "error", text |-> "Headers already sent, cannot send error response"]>>,
        trace |-> <<Step("catch")>>]
  ELSE IF InstanceOfValidationError(error)
  THEN IF IncludesResponseParen(error.message)
       THEN [res |-> send(res, "adapter",
                          ErrorBody("Response validation failed", error.message, error.details), 500),
             log |-> <<>>, trace |-> <<Step("catch"), Step("send")>>]
       ELSE [res |-> send(res, "adapter",
                          ErrorBody("Validation failed", error.message, error.details), 400),
             log |-> <<>>, trace |-> <<Step("catch"), Step("send")>>]
  ELSE IF ~res.headersSent
  THEN [res |-> send(res, "adapter",
                     ErrorBody("Internal Server Error",
                               IF InstanceOfError(error) THEN error.message ELSE GenericMessage,
                               <<>>), 500),
        log |-> <<>>, trace |-> <<Step("catch"), Step("send")>>]
  ELSE [res |-> res, log |-> <<>>, trace |-> <<Step("catch")>>]

\* a try block without its catch: the error leaves the async function, whose promise
\* rejects
propagated(res, error) == [res |-> res, log |-> <<>>, trace |-> <<Step("reject")>>]
\* lines 177-286: whatever is thrown between `try {` and `} catch (error) {` - by the
\* input validations, by the awaited handler, by the response validation - is handled
\* by the catch block; `next` is not called on any path
catchBlock(res, error) == handleError(res, error)

(***************************************************************************)
(* Strings of the route registry.  A path is the sequence of its           *)
(* characters; method names are converted by tables.                       *)
(***************************************************************************)
Str(p) == [kind |-> "string", value |-> p]
PathArray(ps) == [kind |-> "array", value |-> ps]

\* method.toUpperCase()
toUpperCase(m) ==
  CASE m = "get" -> "GET" [] m = "post" -> "POST" [] m = "put" -> "PUT"
    [] m = "patch" -> "PATCH" [] m = "delete" -> "DELETE" [] m = "head" -> "HEAD"
    [] m = "options" -> "OPTIONS" [] m = "trace" -> "TRACE" [] m = "all" -> "ALL"
    [] OTHER -> m
\* route.method.toLowerCase()
toLowerCase(m) ==
  CASE m = "GET" -> "get" [] m = "POST" -> "post" [] m = "PUT" -> "put"
    [] m = "PATCH" -> "patch" [] m = "DELETE" -> "delete" [] m = "HEAD" -> "head"
    [] m = "OPTIONS" -> "options" [] m = "TRACE" -> "trace" [] m = "ALL" -> "all"
    [] OTHER -> m

\* the end of the longest run of characters other than "/" that starts at i
RECURSIVE nameEnd(_, _)
nameEnd(p, i) == IF i < Len(p) /\ p[i + 1] # "/" THEN nameEnd(p, i + 1) ELSE i

\* path.replace(/:([^/]+)/g, '{$1}'), from position i on: a colon followed by at least
\* one character other than "/" is a match, wherever the colon stands
RECURSIVE replaceParams(_, _)
replaceParams(p, i) ==
  IF i > Len(p) THEN <<>>
  ELSE IF p[i] = ":" /\ i < Len(p) /\ p[i + 1] # "/"
  THEN <<"{">> \o SubSeq(p, i + 1, nameEnd(p, i + 1)) \o <<"}">>
         \o replaceParams(p, nameEnd(p, i + 1) + 1)
  ELSE <<p[i]>> \o replaceParams(p, i + 1)

pathKeyOf(path) == replaceParams(path, 1)

(***************************************************************************)
(* zod-to-json-schema: an object schema converts to its properties, in     *)
(* declaration order, and its required set; a schema of kind "broken" is   *)
(* one whose conversion throws.                                            *)
(***************************************************************************)
PropOrder == <<"id", "name", "search", "extraField">>
IdSchema == [kind |-> "object", shape |-> {"id"}, optional |-> {}]
SearchSchema == [kind |-> "object", shape |-> {"name"}, optional |-> {"search"}]
BrokenSchema == [kind |-> "broken", shape |-> {}, optional |-> {}]

ConversionThrows(schema) == schema.kind = "broken"
\* 'properties' in jsonSchema
HasProperties(json) == json.type = "object"
zodToJsonSchema(schema) ==
  [type |-> schema.kind,
   properties |-> SelectSeq(PropOrder, LAMBDA k : k \in schema.shape \cup schema.optional),
   required |-> schema.shape]
\* { type: 'object', description: 'Schema conversion failed ...' }
PlaceholderSchema == [type |-> "placeholder", properties |-> <<>>, required |-> {}]
\* { type: 'object' }
AnyObjectSchema == [type |-> "anyObject", properties |-> <<>>, required |-> {}]

\* zodToOpenApi of the generation script: undefined for no schema, the placeholder
\* when the conversion throws
zodToOpenApi(schema) ==
  IF ~HasSchema(schema) THEN [defined |-> FALSE, json |-> PlaceholderSchema]
  ELSE IF ConversionThrows(schema) THEN [defined |-> TRUE, json |-> PlaceholderSchema]
  ELSE [defined |-> TRUE, json |-> zodToJsonSchema(schema)]

(***************************************************************************)
(* Route definitions, as registerRoute stores them, and the parts of an    *)
(* OpenAPI operation.  An undefined string is "undefined"; a description   *)
(* or summary is the tuple of the pieces of its text.                      *)
(***************************************************************************)
Falsy(text) == text \in {"undefined", ""}
NoMetadata == [summary |-> "undefined", description |-> "undefined"]
Metadata(summary, description) == [summary |-> summary, description |-> description]
\* schema.responses: not declared, or a response configuration per status code
NoRouteResponses == [declared |-> FALSE, entries |-> <<>>]
Responses(entries) == [declared |-> TRUE, entries |-> entries]
ResponseConfig(schema, description) == [schema |-> schema, description |-> description]
\* config.schema: undefined, or query, params, body and responses
NoRouteSchema ==
  [declared |-> FALSE, query |-> NoSchema, params |-> NoSchema, body |-> NoSchema,
   responses |-> NoRouteResponses]
RouteSchema(q, p, b, responses) ==
  [declared |-> TRUE, query |-> q, params |-> p, body |-> b, responses |-> responses]
RouteDefinition(method, path, schema, metadata) ==
  [method |-> method, path |-> path, schema |-> schema, metadata |-> metadata]

NoContent == [present |-> FALSE, schema |-> PlaceholderSchema]
Content(json) == [present |-> TRUE, schema |-> json]
\* can be converted: there is a schema and zodToJsonSchema returns
Convertible(schema) == HasSchema(schema) /\ ~ConversionThrows(schema)

\* path parameters listed as query parameters
pathParametersAsQuery(json) ==
  [i \in 1..Len(json.properties) |->
     [name |-> json.properties[i], in |-> "query",
      required |-> json.properties[i] \in json.required]]
pathParameters(json) ==
  [i \in 1..Len(json.properties) |->
     [name |-> json.properties[i], in |-> "path", required |-> TRUE]]
queryParameters(json) ==
  [i \in 1..Len(json.properties) |->
     [name |-> json.properties[i], in |-> "query",
      required |-> json.properties[i] \in json.required]]

\* the parameters a schema contributes: none unless its conversion has properties
parametersFrom(schema, where) ==
  IF Convertible(schema) /\ HasProperties(zodToJsonSchema(schema))
  THEN IF where = "path" THEN pathParameters(zodToJsonSchema(schema))
       ELSE queryParameters(zodToJsonSchema(schema))
  ELSE <<>>

\* config.description || `Response ${statusCode}`
responseDescription(config, statusCode) ==
  IF Falsy(config.description) THEN <<"Response", statusCode>> ELSE <<config.description>>
DefaultResponses(content) == [c \in {200} |-> [description |-> <<"Success">>, content |-> content]]

\* paths[pathKey][method] = operation
putOperation(paths, pathKey, method, operation) ==
  IF pathKey \in DOMAIN paths
  THEN [paths EXCEPT ![pathKey] = (method :> operation) @@ @]
  ELSE (pathKey :> (method :> operation)) @@ paths
NoPaths == [k \in {} |-> <<>>]

(***************************************************************************)
(* generateOpenApiSpec of core/openapi.ts.  operation.parameters is the    *)
(* list of parameters, empty when the code leaves it undefined.            *)
(***************************************************************************)
coreResponse(config, statusCode) ==
  [description |-> responseDescription(config, statusCode),
   content |-> IF Convertible(config.schema) THEN Content(zodToJsonSchema(config.schema))
               ELSE NoContent]

coreOperation(route, index, method, pathKey) ==
  [index |-> index,
   summary |-> IF Falsy(route.metadata.summary) THEN <<toUpperCase(method), pathKey>>
               ELSE <<route.metadata.summary>>,
   description |-> IF Falsy(route.metadata.description) THEN ""
                   ELSE route.metadata.description,
   requestBody |-> IF Convertible(route.schema.body)
                   THEN Content(zodToJsonSchema(route.schema.body)) ELSE NoContent,
   parameters |-> parametersFrom(route.schema.query, "query")
                    \o parametersFrom(route.schema.params, "path"),
   responses |-> IF route.schema.responses.declared
                 THEN [c \in DOMAIN route.schema.responses.entries |->
                         coreResponse(route.schema.responses.entries[c], c)]
                 ELSE DefaultResponses(NoContent)]

\* routes.forEach((route, index) => ...), from the i-th route on
RECURSIVE coreForEach(_, _, _)
coreForEach(routes, i, paths) ==
  IF i > Len(routes) THEN paths
  ELSE IF ~routes[i].schema.declared THEN coreForEach(routes, i + 1, paths)
  ELSE coreForEach(routes, i + 1,
                   putOperation(paths, pathKeyOf(routes[i].path), toLowerCase(routes[i].method),
                                coreOperation(routes[i], i - 1, toLowerCase(routes[i].method),
                                              pathKeyOf(routes[i].path))))

generateOpenApiSpec(routes) ==
  [by |-> "core", routes |-> routes, threw |-> FALSE, paths |-> coreForEach(routes, 1, NoPaths)]

(***************************************************************************)
(* scripts/generate-typed-openapi.ts: generateTypedRoutePaths, which goes  *)
(* through zodToOpenApi, and generateTypedRoutePathsFromRoutes, which      *)
(* calls zodToJsonSchema directly, outside any try block.                  *)
(***************************************************************************)
\* lines 100-131: parameters of a schema converted by zodToOpenApi
scriptParametersFrom(converted, where) ==
  IF converted.defined /\ HasProperties(converted.json)
  THEN IF where = "path" THEN pathParameters(converted.json)
       ELSE queryParameters(converted.json)
  ELSE <<>>

scriptResponse(config, statusCode) ==
  [description |-> responseDescription(config, statusCode),
   content |-> IF zodToOpenApi(config.schema).defined
               THEN Content(zodToOpenApi(config.schema).json) ELSE NoContent]

scriptOperation(route, index, method, pathKey) ==
  [index |-> index,
   summary |-> IF Falsy(route.metadata.summary) THEN <<toUpperCase(method), pathKey>>
               ELSE <<route.metadata.summary>>,
   description |-> route.metadata.description,
   requestBody |-> IF zodToOpenApi(route.schema.body).defined
                   THEN Content(zodToOpenApi(route.schema.body).json) ELSE NoContent,
   parameters |-> scriptParametersFrom(zodToOpenApi(route.schema.query), "query")
                    \o scriptParametersFrom(zodToOpenApi(route.schema.params), "path"),
   responses |-> IF DOMAIN route.schema.responses.entries # {}
                 THEN [c \in DOMAIN route.schema.responses.entries |->
                         scriptResponse(route.schema.responses.entries[c], c)]
                 ELSE DefaultResponses(NoContent)]

\* for (const route of typedRoutes), from the i-th route on
RECURSIVE scriptFor(_, _, _)
scriptFor(routes, i, paths) ==
  IF i > Len(routes) THEN paths
  ELSE scriptFor(routes, i + 1,
                 putOperation(paths, pathKeyOf(routes[i].path), toLowerCase(routes[i].method),
                              scriptOperation(routes[i], i - 1, toLowerCase(routes[i].method),
                                              pathKeyOf(routes[i].path))))

generateTypedRoutePaths(routes) ==
  [by |-> "script", routes |-> routes, threw |-> FALSE, paths |-> scriptFor(routes, 1, NoPaths)]

\* a zodToJsonSchema call of lines 210-270 throws
fromRoutesThrows(schema) ==
  /\ schema.declared
  /\ \/ \E c \in {"query", "params", "body"} :
          HasSchema(schema[c]) /\ ConversionThrows(schema[c])
     \/ \E c \in DOMAIN schema.responses.entries :
          /\ HasSchema(schema.responses.entries[c].schema)
          /\ ConversionThrows(schema.responses.entries[c].schema)

fromRoutesResponse(config, statusCode) ==
  [description |-> responseDescription(config, statusCode),
   content |-> IF HasSchema(config.schema) THEN Content(zodToJsonSchema(config.schema))
               ELSE NoContent]

fromRoutesOperation(route, index) ==
  [index |-> index,
   summary |-> IF Falsy(route.metadata.summary) THEN <<route.method, route.path>>
               ELSE <<route.metadata.summary>>,
   description |-> route.metadata.description,
   requestBody |-> IF HasSchema(route.schema.body)
                   THEN Content(zodToJsonSchema(route.schema.body)) ELSE NoContent,
   parameters |-> parametersFrom(route.schema.query, "query")
                    \o parametersFrom(route.schema.params, "path"),
   responses |-> IF route.schema.responses.declared
                 THEN [c \in DOMAIN route.schema.responses.entries |->
                         fromRoutesResponse(route.schema.responses.entries[c], c)]
                 ELSE DefaultResponses(Content(AnyObjectSchema))]

\* for (const route of routes), from the i-th route on; a throw ends the loop and
\* leaves the caller without a document
RECURSIVE fromRoutesFor(_, _, _)
fromRoutesFor(routes, i, paths) ==
  IF i > Len(routes) THEN [threw |-> FALSE, paths |-> paths]
  ELSE IF fromRoutesThrows(routes[i].schema) THEN [threw |-> TRUE, paths |-> NoPaths]
  ELSE fromRoutesFor(routes, i + 1,
                     putOperation(paths, pathKeyOf(routes[i].path),
                                  toLowerCase(routes[i].method),
                                  fromRoutesOperation(routes[i], i - 1)))

generated(by, routes, result) ==
  [by |-> by, routes |-> routes, threw |-> result.threw, paths |-> result.paths]
generateTypedRoutePathsFromRoutes(routes) ==
  generated("fromRoutes", routes, fromRoutesFor(routes, 1, NoPaths))

(***************************************************************************)
(* State.                                                                  *)
(*   appConfig, nodeEnv  the app configuration and process.env.NODE_ENV    *)
(*   cfg[r]      the route configuration the handler of request r closes   *)
(*               over (its handler field is the business handler)          *)
(*   req[r]      the request: query, params, body as the server parsed it  *)
(*   res[r]      the response object                                       *)
(*   pc[r]       "none" (no such request), "received", "handler" (business *)
(*               handler running), "settled" (it returned or threw),       *)
(*               "done"                                                    *)
(*   hctx[r]     the query, params, body the business handler was given    *)
(*   settled[r]  how the business handler ended                            *)
(*   trace[r]    history: the steps the adapter took for r                 *)
(*   log[r]      history: console output produced while handling r         *)
(*   routes      the route registry of the app (the array getRoutes        *)
(*               returns)                                                  *)
(*   served      what the HTTP server was given by registerRoute: method,  *)
(*               path as passed, route configuration                       *)
(*   doc         the result of the last OpenAPI generation: the generator, *)
(*               the routes it read, whether it threw, the paths mapping   *)
(*   given       the configuration createTypedApp was called with          *)
(*   instances   the other apps createTypedApp made in this process: the   *)
(*               arrays allocated for their `routes`, and for each app the *)
(*               array its closure holds                                   *)
(***************************************************************************)
VARIABLES appConfig, nodeEnv, cfg, req, res, pc, hctx, settled, trace, log,
          routes, served, doc, given, instances

vars == <<appConfig, nodeEnv, cfg, req, res, pc, hctx, settled, trace, log,
          routes, served, doc, given, instances>>

NoInstances == [arrays |-> <<>>, apps |-> <<>>]

NoDoc == [by |-> "none", routes |-> <<>>, threw |-> FALSE, paths |-> NoPaths]
NotSettled == [outcome |-> "none", value |-> Undefined, thrown |-> NoThrow]
NoResponses == [c \in {} |-> NoSchema]
IdleHandler == [status |-> 0, sends |-> FALSE, outcome |-> "return",
                value |-> Undefined, thrown |-> NoThrow]
\* config.middlewares: undefined, or an array of middlewares
NoMiddlewares == [kind |-> "undefined", list |-> <<>>]
Middlewares(list) == [kind |-> "array", list |-> list]
IdleRoute == [strict |-> "absent", validateResponse |-> "absent",
              schema |-> [query |-> NoSchema, params |-> NoSchema, body |-> NoSchema,
                          responses |-> NoResponses],
              middlewares |-> NoMiddlewares,
              handler |-> IdleHandler]

(***************************************************************************)
(* The middlewares of a route: registerRoute gives the HTTP server         *)
(* `...middlewares, handler`, which it runs in that order, each one when   *)
(* the one before it has called next().  A middleware changes the query of *)
(* the request it is given and calls next().                               *)
(***************************************************************************)
\* the middlewares handed over in reverse order
middlewaresReversed(config) ==
  [i \in 1..Len(config.middlewares.list) |->
     config.middlewares.list[Len(config.middlewares.list) + 1 - i]]
\* config.middlewares ?? []
middlewaresOf(config) ==
  IF config.middlewares.kind = "undefined" THEN <<>> ELSE config.middlewares.list

\* req.query.k = ... for the keys it adds, delete req.query.k for those it removes
runMiddleware(mw, request) ==
  [request EXCEPT !.query = Obj((OrEmpty(@).keys \ mw.removes) \cup mw.adds)]

MiddlewareSteps(r) == SelectSeq(trace[r], LAMBDA t : t.step = "middleware")
\* every middleware of the route has run and called next()
MiddlewaresRan(r) == Len(MiddlewareSteps(r)) = Len(middlewaresOf(cfg[r]))

Middleware(r) ==
  /\ pc[r] = "received"
  /\ ~MiddlewaresRan(r)
  /\ \E mw \in {middlewaresOf(cfg[r])[Len(MiddlewareSteps(r)) + 1]} :
       /\ req' = [req EXCEPT ![r] = runMiddleware(mw, @)]
       /\ trace' = [trace EXCEPT ![r] =
                      Append(@, [step |-> "middleware", context |-> mw.name, flag |-> "",
                                 data |-> req[r].query, schema |-> NoSchema])]
  /\ UNCHANGED <<given, instances, routes, served, doc, appConfig, nodeEnv, cfg, res, pc,
                 hctx, settled, log>>

(***************************************************************************)
(* The adapter is entered: lines 177-205, and the catch block when input   *)
(* validation throws.                                                      *)
(***************************************************************************)
rejected(v, h) ==
  [pc |-> "done", res |-> h.res, ctx |-> NoCtx, log |-> v.log \o h.log,
   trace |-> v.trace \o h.trace]

\* the handler started whatever the input validations threw
enteredAnyway(response, v) ==
  [pc |-> "handler", res |-> response, ctx |-> v.ctx, log |-> v.log,
   trace |-> v.trace \o <<Step("handler")>>]
\* lines 183-205: the handler is called when no input validation threw
entered(response, v) ==
  IF v.threw.type = "none"
  THEN [pc |-> "handler", res |-> response, ctx |-> v.ctx, log |-> v.log,
        trace |-> v.trace \o <<Step("handler")>>]
  ELSE rejected(v, catchBlock(response, v.threw))

enter(app, config, request, response) ==
  entered(response, validateInputs(app, config, request))

\* query, params and body kept in one place for all the requests in flight
sharedLocals(ctxs, r, ctx) == [q \in DOMAIN ctxs |-> ctx]
\* lines 184-196: `const query`, `const params`, `const body` are locals of the
\* invocation that handles request r
locals(ctxs, r, ctx) == [ctxs EXCEPT ![r] = ctx]

Enter(r) ==
  /\ pc[r] = "received"
  /\ MiddlewaresRan(r)
  /\ \E o \in {enter(appConfig, cfg[r], req[r], res[r])} :
       /\ pc' = [pc EXCEPT ![r] = o.pc]
       /\ res' = [res EXCEPT ![r] = o.res]
       /\ hctx' = locals(hctx, r, o.ctx)
       /\ trace' = [trace EXCEPT ![r] = @ \o o.trace]
       /\ log' = [log EXCEPT ![r] = @ \o o.log]
  /\ UNCHANGED <<given, instances, routes, served, doc, appConfig, nodeEnv, cfg, req, settled>>

(***************************************************************************)
(* The business handler (config.handler): it may set res.statusCode, may   *)
(* send the response itself, and then returns a value or throws.           *)
(***************************************************************************)
StatusSet(r) ==
  cfg[r].handler.status = 0 \/ res[r].statusCode = cfg[r].handler.status
HandlerReady(r) ==
  StatusSet(r) /\ (cfg[r].handler.sends => res[r].headersSent)

HandlerSetStatus(r) ==
  /\ pc[r] = "handler"
  /\ ~StatusSet(r)
  /\ res' = [res EXCEPT ![r].statusCode = cfg[r].handler.status]
  /\ UNCHANGED <<given, instances, routes, served, doc, appConfig, nodeEnv, cfg, req, pc, hctx, settled, trace, log>>

HandlerSend(r) ==
  /\ pc[r] = "handler"
  /\ StatusSet(r)
  /\ cfg[r].handler.sends
  /\ ~res[r].headersSent
  /\ res' = [res EXCEPT ![r] = send(@, "handler", DataBody(Obj({"name"})), @.statusCode)]
  /\ UNCHANGED <<given, instances, routes, served, doc, appConfig, nodeEnv, cfg, req, pc, hctx, settled, trace, log>>

HandlerReturn(r) ==
  /\ pc[r] = "handler"
  /\ HandlerReady(r)
  /\ cfg[r].handler.outcome = "return"
  /\ settled' = [settled EXCEPT ![r] = [outcome |-> "return",
                                        value |-> cfg[r].handler.value,
                                        thrown |-> NoThrow]]
  /\ pc' = [pc EXCEPT ![r] = "settled"]
  /\ UNCHANGED <<given, instances, routes, served, doc, appConfig, nodeEnv, cfg, req, res, hctx, trace, log>>

HandlerThrow(r) ==
  /\ pc[r] = "handler"
  /\ HandlerReady(r)
  /\ cfg[r].handler.outcome = "throw"
  /\ settled' = [settled EXCEPT ![r] = [outcome |-> "throw",
                                        value |-> Undefined,
                                        thrown |-> cfg[r].handler.thrown]]
  /\ pc' = [pc EXCEPT ![r] = "settled"]
  /\ UNCHANGED <<given, instances, routes, served, doc, appConfig, nodeEnv, cfg, req, res, hctx, trace, log>>

(***************************************************************************)
(* The adapter resumes after the await: lines 207-229, or the catch block  *)
(* when the handler or the response validation threw.                      *)
(***************************************************************************)
caught(s, h) == [res |-> h.res, log |-> s.log \o h.log, trace |-> s.trace \o h.trace]

sent(s) ==
  IF s.threw.type = "none" THEN [res |-> s.res, log |-> s.log, trace |-> s.trace]
  ELSE caught(s, catchBlock(s.res, s.threw))

resume(app, env, config, response, how) ==
  IF how.outcome = "return"
  THEN sent(sendResult(app, env, config, response, how.value))
  ELSE catchBlock(response, how.thrown)

Resume(r) ==
  /\ pc[r] = "settled"
  /\ \E o \in {resume(appConfig, nodeEnv, cfg[r], res[r], settled[r])} :
       /\ res' = [res EXCEPT ![r] = o.res]
       /\ log' = [log EXCEPT ![r] = @ \o o.log]
       /\ trace' = [trace EXCEPT ![r] = @ \o o.trace]
  /\ pc' = [pc EXCEPT ![r] = "done"]
  /\ UNCHANGED <<given, instances, routes, served, doc, appConfig, nodeEnv, cfg, req, hctx, settled>>

(***************************************************************************)
(* A request arrives: the HTTP server dispatches it, with a fresh response *)
(* object, to the handler createValidatedHandler made for a route.         *)
(***************************************************************************)
RouteConfig(strict, flag, q, p, b, responses, handler) ==
  [strict |-> strict, validateResponse |-> flag,
   schema |-> [query |-> q, params |-> p, body |-> b, responses |-> responses],
   middlewares |-> NoMiddlewares,
   handler |-> handler]
Handler(status, sends, end) ==
  [status |-> status, sends |-> sends, outcome |-> end.outcome, value |-> end.value,
   thrown |-> end.thrown]
Returns(v) == [outcome |-> "return", value |-> v, thrown |-> NoThrow]
Throws(e) == [outcome |-> "throw", value |-> Undefined, thrown |-> e]

ReturnValues == {Undefined, Obj({}), Obj({"name"}), Obj({"name", "extraField"})}
ThrownValues ==
  {ErrorOf("Error", "boom", <<>>), ErrorOf("string", "", <<>>),
   ErrorOf("ValidationError", "boom", <<>>),
   ErrorOf("ValidationError", "bad response (upstream)", <<>>)}
HandlerEnds == {Returns(v) : v \in ReturnValues} \cup {Throws(e) : e \in ThrownValues}
ResponseSets ==
  {NoResponses, [c \in {200} |-> UserSchema], [c \in {200} |-> ListSchema],
   [c \in {404} |-> UserSchema], (200 :> UserSchema) @@ (404 :> IdSchema)}
ObjectSchemas == {NoSchema, UserSchema}
BodySchemas == {NoSchema, UserSchema, ListSchema}
Payloads == {Undefined, Obj({}), Obj({"name"}), Obj({"extraField"}),
             Obj({"name", "extraField"})}
BodyPayloads == Payloads \cup {Arr}
HandlerStatuses == {0, 404}

Dispatch(r, config, request) ==
  /\ pc[r] = "none"
  /\ cfg' = [cfg EXCEPT ![r] = config]
  /\ req' = [req EXCEPT ![r] = request]
  /\ pc' = [pc EXCEPT ![r] = "received"]
  /\ UNCHANGED <<given, instances, routes, served, doc, appConfig, nodeEnv, res, hctx, settled, trace, log>>

Handle(r) ==
  \/ Enter(r)
  \/ HandlerSetStatus(r)
  \/ HandlerSend(r)
  \/ HandlerReturn(r)
  \/ HandlerThrow(r)
  \/ Resume(r)

(***************************************************************************)
(* Initial states: an app created from a configuration in an environment,  *)
(* no request yet.                                                         *)
(***************************************************************************)
InitWith(configs, envs) ==
  /\ \E c \in configs, e \in envs :
       /\ appConfig = createAppConfig(c, e)
       /\ nodeEnv = e
       /\ given = c
  /\ cfg = [r \in ReqIds |-> IdleRoute]
  /\ req = [r \in ReqIds |-> NoCtx]
  /\ res = [r \in ReqIds |-> NewResponse]
  /\ pc = [r \in ReqIds |-> "none"]
  /\ hctx = [r \in ReqIds |-> NoCtx]
  /\ settled = [r \in ReqIds |-> NotSettled]
  /\ trace = [r \in ReqIds |-> <<>>]
  /\ log = [r \in ReqIds |-> <<>>]
  /\ routes = <<>>
  /\ served = <<>>
  /\ doc = NoDoc
  /\ instances = NoInstances

\* One request, with every handler behaviour and response configuration.
Init ==
  InitWith([strict : {"true", "false"}, validateResponses : Opt,
            logValidationErrors : {"true", "false"}],
           {"development", "production"})
Arrive ==
  /\ pc[1] = "none"
  /\ \E strict \in {"absent", "true"}, flag \in Opt, b \in ObjectSchemas,
        responses \in ResponseSets, status \in HandlerStatuses, sends \in BOOLEAN,
        end \in HandlerEnds, body \in {Obj({}), Obj({"name"})} :
       Dispatch(1,
                RouteConfig(strict, flag, NoSchema, NoSchema, b, responses,
                            Handler(status, sends, end)),
                [query |-> Obj({}), params |-> Obj({}), body |-> body])
Next == Arrive \/ \E r \in ReqIds : Handle(r)
Spec == Init /\ [][Next]_vars

\* One request, with every input and input schema, and three handlers.
InitInputs ==
  InitWith([strict : Opt, validateResponses : {"false"},
            logValidationErrors : {"true", "false"}],
           {"development"})
InputHandlers ==
  {Handler(0, FALSE, Returns(Obj({"name"}))), Handler(404, TRUE, Returns(Undefined)),
   Handler(0, FALSE, Throws(ErrorOf("Error", "boom", <<>>)))}
ArriveInputs ==
  /\ pc[1] = "none"
  /\ \E strict \in Opt, q \in ObjectSchemas, p \in ObjectSchemas, b \in BodySchemas,
        handler \in InputHandlers, query \in Payloads, params \in Payloads,
        body \in BodyPayloads :
       Dispatch(1,
                RouteConfig(strict, "absent", q, p, b, NoResponses, handler),
                [query |-> query, params |-> params, body |-> body])
NextInputs == ArriveInputs \/ \E r \in ReqIds : Handle(r)
SpecInputs == InitInputs /\ [][NextInputs]_vars

\* Requests in flight together: each of them may arrive while the others are
\* suspended in their handlers, for a route with schemas or for one without.
InitConcurrent ==
  InitWith({[strict |-> "true", validateResponses |-> "true",
             logValidationErrors |-> "true"]}, {"development"})
ConcurrentRoutes ==
  {RouteConfig("absent", "absent", NoSchema, NoSchema, UserSchema,
               [c \in {200} |-> UserSchema], h) : h \in InputHandlers}
    \cup {RouteConfig("absent", "absent", NoSchema, NoSchema, NoSchema, NoResponses, h) :
            h \in InputHandlers}
ArriveConcurrent ==
  \E r \in ReqIds :
    /\ pc[r] = "none"
    /\ \E config \in ConcurrentRoutes,
          body \in {Obj({}), Obj({"name"}), Obj({"name", "extraField"})} :
         Dispatch(r, config, [query |-> Obj({}), params |-> Obj({}), body |-> body])
NextConcurrent == ArriveConcurrent \/ \E r \in ReqIds : Handle(r)
SpecConcurrent == InitConcurrent /\ [][NextConcurrent]_vars

\* Requests to routes with and without middlewares, all with the same query schema.
AddName == [name |-> "addName", adds |-> {"name"}, removes |-> {}]
DropName == [name |-> "dropName", adds |-> {}, removes |-> {"name"}]
AddExtra == [name |-> "addExtra", adds |-> {"extraField"}, removes |-> {}]
MiddlewareLists ==
  {NoMiddlewares, Middlewares(<<>>), Middlewares(<<AddName>>),
   Middlewares(<<DropName, AddName>>), Middlewares(<<AddName, DropName>>),
   Middlewares(<<AddExtra, AddName>>)}
ArriveMiddlewares ==
  /\ pc[1] = "none"
  /\ \E mws \in MiddlewareLists, handler \in InputHandlers,
        query \in {Undefined, Obj({}), Obj({"name"})} :
       Dispatch(1,
                [RouteConfig("absent", "absent", UserSchema, NoSchema, NoSchema,
                             NoResponses, handler) EXCEPT !.middlewares = mws],
                [query |-> query, params |-> Obj({}), body |-> Obj({})])
NextMiddlewares ==
  \/ ArriveMiddlewares
  \/ \E r \in ReqIds : Middleware(r)
  \/ \E r \in ReqIds : Handle(r)
SpecMiddlewares == InitInputs /\ [][NextMiddlewares]_vars

\* One request whose handler terminates: the event loop runs the adapter when the
\* request is dispatched and again when the awaited handler has settled, and the
\* handler takes each of its steps.
LiveHandlers == InputHandlers \cup {Handler(404, FALSE, Returns(Undefined))}
ArriveLive ==
  /\ pc[1] = "none"
  /\ \E strict \in {"absent", "true"}, flag \in {"absent", "true", "false"},
        b \in ObjectSchemas, responses \in {NoResponses, [c \in {200} |-> UserSchema]},
        handler \in LiveHandlers,
        body \in {Obj({}), Obj({"name"}), Obj({"name", "extraField"})} :
       Dispatch(1, RouteConfig(strict, flag, NoSchema, NoSchema, b, responses, handler),
                [query |-> Obj({}), params |-> Obj({}), body |-> body])
NextLive == ArriveLive \/ \E r \in ReqIds : Handle(r)
SpecLive ==
  /\ InitConcurrent
  /\ [][NextLive]_vars
  /\ \A r \in ReqIds : WF_vars(Handle(r))

(***************************************************************************)
(* The route registry: registerRoute behind app.get, app.post, ..., and    *)
(* the OpenAPI generators reading getRoutes().                             *)
(***************************************************************************)
MaxRoutes == 2

\* the path stored for a list of paths taken to be the last one
pathForDocLast(path) ==
  IF path.kind = "array" THEN path.value[Len(path.value)] ELSE path.value
\* Array.isArray(path) ? path[0] : path
pathForDoc(path) == IF path.kind = "array" THEN path.value[1] ELSE path.value

registerRoute(method, path, config) ==
  /\ routes' = Append(routes, RouteDefinition(toUpperCase(method), pathForDoc(path),
                                              config.schema, config.metadata))
  /\ served' = Append(served, [method |-> method, path |-> path, config |-> config])
  /\ UNCHANGED <<given, instances, doc, appConfig, nodeEnv, cfg, req, res, pc, hctx, settled, trace, log>>

\* "/u", "/u/:i", "/u:i"
PUsers == <<"/", "u">>
PUserId == <<"/", "u", "/", ":", "i">>
PColon == <<"/", "u", ":", "i">>
PathInputs == {Str(PUsers), Str(PUserId), Str(PColon), PathArray(<<PUserId, PUsers>>)}
Methods == {"get", "put"}
TypedConfig(schema, metadata) == [schema |-> schema, metadata |-> metadata]
ConfigInputs ==
  {TypedConfig(NoRouteSchema, Metadata("Health check", "Check API health status")),
   TypedConfig(RouteSchema(SearchSchema, IdSchema, NoSchema, NoRouteResponses), NoMetadata),
   TypedConfig(RouteSchema(NoSchema, NoSchema, UserSchema,
                           Responses(200 :> ResponseConfig(UserSchema, "User found"))),
               Metadata("Create user", "undefined")),
   TypedConfig(RouteSchema(NoSchema, NoSchema, BrokenSchema,
                           Responses(200 :> ResponseConfig(BrokenSchema, "undefined"))),
               NoMetadata),
   TypedConfig(RouteSchema(BrokenSchema, BrokenSchema, NoSchema, NoRouteResponses),
               Metadata("Search", "undefined"))}

Register ==
  /\ Len(served) < MaxRoutes
  /\ \E method \in Methods, path \in PathInputs, config \in ConfigInputs :
       registerRoute(method, path, config)

GenerateCore ==
  /\ doc' = generateOpenApiSpec(routes)
  /\ UNCHANGED <<given, instances, routes, served, appConfig, nodeEnv, cfg, req, res, pc, hctx, settled,
                 trace, log>>
GenerateScript ==
  /\ doc' = generateTypedRoutePaths(routes)
  /\ UNCHANGED <<given, instances, routes, served, appConfig, nodeEnv, cfg, req, res, pc, hctx, settled,
                 trace, log>>
GenerateFromRoutes ==
  /\ doc' = generateTypedRoutePathsFromRoutes(routes)
  /\ UNCHANGED <<given, instances, routes, served, appConfig, nodeEnv, cfg, req, res, pc, hctx, settled,
                 trace, log>>

InitRegistry ==
  InitWith({[strict |-> "false", validateResponses |-> "false",
             logValidationErrors |-> "false"]}, {"development"})
NextRegistry == Register \/ GenerateCore \/ GenerateScript \/ GenerateFromRoutes
SpecRegistry == InitRegistry /\ [][NextRegistry]_vars

(***************************************************************************)
(* Callers of getRoutes hold the registry array itself, not a copy: what   *)
(* they do to the list they were given, they do to the registry.  Requests *)
(* are served by the handlers registerRoute gave to the HTTP server.       *)
(***************************************************************************)
\* getRoutes().pop()
CallerPops ==
  /\ routes # <<>>
  /\ routes' = SubSeq(routes, 1, Len(routes) - 1)
  /\ UNCHANGED <<given, instances, served, doc, appConfig, nodeEnv, cfg, req, res, pc, hctx, settled,
                 trace, log>>

\* the route configuration createValidatedHandler closes over
servedConfig(config, handler) ==
  RouteConfig("absent", "absent", config.schema.query, config.schema.params,
              config.schema.body,
              [c \in DOMAIN config.schema.responses.entries |->
                 config.schema.responses.entries[c].schema],
              handler)

ArriveServed ==
  /\ pc[1] = "none"
  /\ \E i \in DOMAIN served, handler \in InputHandlers :
       Dispatch(1, servedConfig(served[i].config, handler),
                [query |-> Obj({"name"}), params |-> Obj({"id"}), body |-> Obj({"name"})])

NextCallers ==
  \/ Register
  \/ GenerateCore
  \/ CallerPops
  \/ ArriveServed
  \/ \E r \in ReqIds : Handle(r)
SpecCallers == InitRegistry /\ [][NextCallers]_vars

(***************************************************************************)
(* Several apps in one process.  Every call of createTypedApp runs         *)
(* `const routes = []`: the closure of the new app holds a newly allocated *)
(* array, which its registerRoute pushes to and its getRoutes returns.     *)
(***************************************************************************)
MaxApps == 2

\* every app holding the array of the first app made
createTypedAppSharing(inst) ==
  [arrays |-> IF inst.arrays = <<>> THEN <<<<>>>> ELSE inst.arrays,
   apps |-> Append(inst.apps, 1)]
\* lines 93-98
createTypedApp(inst) ==
  [arrays |-> Append(inst.arrays, <<>>),
   apps |-> Append(inst.apps, Len(inst.arrays) + 1)]

\* getRoutes: () => routes
getRoutes(inst, a) == inst.arrays[inst.apps[a]]

\* lines 301-307, in the closure of app a
registerRouteOn(inst, a, method, path, config) ==
  [inst EXCEPT !.arrays[inst.apps[a]] =
     Append(@, RouteDefinition(toUpperCase(method), pathForDoc(path),
                               config.schema, config.metadata))]

CreateTypedApp ==
  /\ Len(instances.apps) < MaxApps
  /\ instances' = createTypedApp(instances)
  /\ UNCHANGED <<appConfig, nodeEnv, cfg, req, res, pc, hctx, settled, trace, log,
                 routes, served, doc, given>>

AppConfigInputs ==
  {TypedConfig(NoRouteSchema, Metadata("Health check", "Check API health status")),
   TypedConfig(RouteSchema(SearchSchema, IdSchema, NoSchema, NoRouteResponses), NoMetadata)}

RegisterOn ==
  /\ \E a \in DOMAIN instances.apps :
       /\ Len(getRoutes(instances, a)) < MaxRoutes
       /\ \E method \in Methods, config \in AppConfigInputs :
            instances' = registerRouteOn(instances, a, method, Str(PUsers), config)
  /\ UNCHANGED <<appConfig, nodeEnv, cfg, req, res, pc, hctx, settled, trace, log,
                 routes, served, doc, given>>

NextApps == CreateTypedApp \/ RegisterOn
SpecApps == InitRegistry /\ [][NextApps]_vars

(***************************************************************************)
(* What the properties speak about.                                        *)
(***************************************************************************)
Writes(r) == res[r].writes
AdapterWrites(r) == SelectSeq(Writes(r), LAMBDA w : w.by = "adapter")
HandlerSent(r) == \E i \in DOMAIN Writes(r) : Writes(r)[i].by = "handler"
HasStep(r, name) == \E i \in DOMAIN trace[r] : trace[r][i].step = name
Entered(r) == pc[r] \in {"handler", "settled", "done"}
Done(r) == pc[r] = "done"
\* the contexts validateData was called with, in call order
Validations(r) == SelectSeq(trace[r], LAMBDA t : t.step = "validateData")
InputValidations(r) == SelectSeq(Validations(r), LAMBDA t : t.context \in Contexts)
ResponseValidated(r) ==
  \E i \in DOMAIN trace[r] :
    trace[r][i].step = "validateData" /\ trace[r][i].context = "response (200)"
\* the only write is the adapter's, with this status and error
OnlyAdapterError(r, status, error) ==
  /\ Len(Writes(r)) = 1
  /\ Writes(r)[1].by = "adapter"
  /\ Writes(r)[1].status = status
  /\ Writes(r)[1].body.error = error

\* A value satisfies a schema: an object with every declared key (and, under
\* strict validation, no other key); an array for an array schema.
Satisfies(data, schema, strict) ==
  CASE schema.kind = "object" ->
         /\ data.kind = "object"
         /\ schema.shape \subseteq data.keys
         /\ strict => data.keys \subseteq (schema.shape \cup schema.optional)
    [] schema.kind = "array" -> data.kind = "array"
    [] OTHER -> TRUE
\* the strictness the route asks for: its own boolean, else the app's value
RouteSetsStrict(r) == cfg[r].strict \in {"true", "false"}
StrictnessAsked(r) == IF RouteSetsStrict(r) THEN cfg[r].strict ELSE appConfig.strict
SchemaOf(r, c) == cfg[r].schema[c]
Payload(r, c) == OrEmpty(req[r][c])

(***************************************************************************)
(* C1                                                                      *)
(***************************************************************************)
\* C1: the adapter writes to the response only while headersSent is false, whatever
\* the order in which the handler sends, returns and throws; when an error is caught
\* after the headers were sent, the adapter writes nothing and the request is done.
C1_AdapterNeverWritesAfterHeadersSent ==
  \A r \in ReqIds :
    /\ \A i \in DOMAIN Writes(r) :
         Writes(r)[i].by = "adapter" => ~Writes(r)[i].headersWereSent
    /\ (Done(r) /\ HasStep(r, "catch") /\ HandlerSent(r)) => AdapterWrites(r) = <<>>

\* a handler sent the response and then threw a ValidationError; nothing more was written
C1_Witness ==
  \E r \in ReqIds :
    /\ Done(r)
    /\ settled[r].outcome = "throw"
    /\ settled[r].thrown.type = "ValidationError"
    /\ HandlerSent(r)
    /\ HasStep(r, "catch")
    /\ Len(Writes(r)) = 1

(***************************************************************************)
(* C2                                                                      *)
(***************************************************************************)
\* C2: when the handler has sent the response itself and then returns (a value or
\* nothing), exactly one response is sent, the handler's, and the adapter neither
\* substitutes an empty object, nor validates the response, nor sends.
C2_HandlerSentResponseIsTheOnlyOne ==
  \A r \in ReqIds :
    (Done(r) /\ settled[r].outcome = "return" /\ HandlerSent(r))
      => /\ Len(Writes(r)) = 1
         /\ Writes(r)[1].by = "handler"
         /\ ~HasStep(r, "substitute")
         /\ ~ResponseValidated(r)
         /\ ~HasStep(r, "send")
         /\ ~HasStep(r, "catch")

\* the handler sent and returned nothing, on a route whose response would otherwise
\* have been validated against a 200 schema
C2_Witness ==
  \E r \in ReqIds :
    /\ Done(r)
    /\ settled[r].outcome = "return"
    /\ settled[r].value = Undefined
    /\ HandlerSent(r)
    /\ cfg[r].validateResponse = "true"
    /\ 200 \in DOMAIN cfg[r].schema.responses
    /\ Len(Writes(r)) = 1

(***************************************************************************)
(* C3                                                                      *)
(***************************************************************************)
\* an input with a schema that its payload does not satisfy even leniently
InputFails(r, c) == HasSchema(SchemaOf(r, c)) /\ ~Satisfies(Payload(r, c), SchemaOf(r, c), FALSE)

\* C3: on every route with a query, params or body schema, a request with an input
\* that fails validation gets 400 "Validation failed" with the ValidationError's
\* message and details, and the business handler is not invoked.
C3_InvalidInputGets400 ==
  \A r \in ReqIds :
    (Done(r) /\ \E c \in Contexts : InputFails(r, c))
      => /\ OnlyAdapterError(r, 400, "Validation failed")
         /\ \E c \in Contexts : Writes(r)[1].body.message = ValidationMessage(c)
         /\ Writes(r)[1].body.details # <<>>
         /\ ~HasStep(r, "handler")
         /\ settled[r] = NotSettled

(***************************************************************************)
(* C4                                                                      *)
(***************************************************************************)
\* the route declares an object schema for status 200 and asks for response validation
\* (its own validateResponse is true, or it has none and the app's validateResponses is)
ResponseValidationAsked(r) ==
  /\ 200 \in DOMAIN cfg[r].schema.responses
  /\ responseSchema(cfg[r]).kind = "object"
  /\ \/ cfg[r].validateResponse = "true"
     \/ cfg[r].validateResponse = "absent" /\ appConfig.validateResponses = "true"

\* C4: with a 200 schema and response validation in effect, a returned value that does
\* not satisfy the schema yields 500 "Response validation failed" and is never sent as
\* a success, in development and in production alike.
C4_InvalidResponseGets500 ==
  \A r \in ReqIds :
    (/\ Done(r)
     /\ settled[r].outcome = "return"
     /\ ~HandlerSent(r)
     /\ ResponseValidationAsked(r)
     /\ ~Satisfies(OrEmpty(settled[r].value), responseSchema(cfg[r]), FALSE))
      => OnlyAdapterError(r, 500, "Response validation failed")

(***************************************************************************)
(* C5                                                                      *)
(***************************************************************************)
\* C5: when the business handler throws, whatever it throws, and the response has not
\* been sent, the client gets 500 "Internal Server Error" with the exception's message
\* when it is an Error and a generic message otherwise.
C5_HandlerThrowGets500 ==
  \A r \in ReqIds :
    (Done(r) /\ settled[r].outcome = "throw" /\ ~HandlerSent(r))
      => /\ OnlyAdapterError(r, 500, "Internal Server Error")
         /\ Writes(r)[1].body.message =
              IF InstanceOfError(settled[r].thrown) THEN settled[r].thrown.message
              ELSE GenericMessage

(***************************************************************************)
(* C6                                                                      *)
(***************************************************************************)
ClaimedOrder == <<"query", "params", "body">>
\* the inputs that have a schema, in the claimed order
WithSchema(r) == SelectSeq(ClaimedOrder, LAMBDA c : HasSchema(SchemaOf(r, c)))
\* the positions in WithSchema of the inputs whose payload the schema rejects
Rejected(r) ==
  {i \in 1..Len(WithSchema(r)) :
     ~Satisfies(Payload(r, WithSchema(r)[i]), SchemaOf(r, WithSchema(r)[i]),
                StrictnessAsked(r) = "true")}
FirstRejected(r) == CHOOSE i \in Rejected(r) : \A j \in Rejected(r) : i <= j
ContextsOf(calls) == [i \in 1..Len(calls) |-> calls[i].context]

\* C6: inputs are validated in the order query, params, body; the first failing input
\* ends validation, and the 400 response reports that input only.
C6_InputsValidatedInOrder ==
  \A r \in ReqIds :
    Entered(r) =>
      IF Rejected(r) = {}
      THEN ContextsOf(InputValidations(r)) = WithSchema(r)
      ELSE /\ ContextsOf(InputValidations(r)) = SubSeq(WithSchema(r), 1, FirstRejected(r))
           /\ ~HasStep(r, "handler")
           /\ SchemaOf(r, WithSchema(r)[FirstRejected(r)]).kind = "object"
                => /\ OnlyAdapterError(r, 400, "Validation failed")
                   /\ Writes(r)[1].body.message =
                        ValidationMessage(WithSchema(r)[FirstRejected(r)])
                   /\ \A i \in DOMAIN Writes(r)[1].body.details :
                        Writes(r)[1].body.details[i].value =
                          Payload(r, WithSchema(r)[FirstRejected(r)])

\* query, params and body are all invalid, and only the query is validated and reported
C6_Witness ==
  \E r \in ReqIds :
    /\ Done(r)
    /\ \A c \in Contexts : InputFails(r, c)
    /\ ContextsOf(InputValidations(r)) = <<"query">>
    /\ Writes(r)[1].body.message = "Validation failed for query"

(***************************************************************************)
(* C7                                                                      *)
(***************************************************************************)
\* C7: every input is validated with the route's strict value when the route sets a
\* boolean, and with the app-level value otherwise; the route wins in both directions.
C7_RouteStrictOverridesApp ==
  \A r \in ReqIds :
    \A i \in DOMAIN InputValidations(r) :
      InputValidations(r)[i].flag = StrictnessAsked(r)

\* a route with strict: false on an app with strict: true: the body, which has an
\* extra field, was validated leniently and reached the handler
C7_Witness ==
  \E r \in ReqIds :
    /\ Entered(r)
    /\ cfg[r].strict = "false"
    /\ appConfig.strict = "true"
    /\ SchemaOf(r, "body") = UserSchema
    /\ "extraField" \in Payload(r, "body").keys
    /\ HasStep(r, "handler")
    /\ \E i \in DOMAIN InputValidations(r) : InputValidations(r)[i].flag = "false"

(***************************************************************************)
(* C8                                                                      *)
(***************************************************************************)
\* the response validation flag the route asks for: its own boolean, else the app's
ValidateResponseAsked(r) ==
  IF cfg[r].validateResponse \in {"true", "false"} THEN cfg[r].validateResponse
  ELSE appConfig.validateResponses

\* C8: the response is validated exactly when the route's validateResponse says so if it
\* is a boolean, and when the app's validateResponses says so if the route's value is
\* absent or undefined.
C8_RouteValidateResponseOverridesApp ==
  \A r \in ReqIds :
    (/\ Done(r)
     /\ settled[r].outcome = "return"
     /\ ~HandlerSent(r)
     /\ 200 \in DOMAIN cfg[r].schema.responses)
      => (ResponseValidated(r) <=> ValidateResponseAsked(r) = "true")

(***************************************************************************)
(* C9                                                                      *)
(***************************************************************************)
\* C9: with strictness disabled, a request whose inputs satisfy their (object) schemas
\* is accepted, and the handler is given each payload with its extra fields, unmodified.
C9_LenientKeepsExtraFields ==
  \A r \in ReqIds :
    (/\ Entered(r)
     /\ StrictnessAsked(r) # "true"
     /\ \A c \in Contexts :
          HasSchema(SchemaOf(r, c))
            => /\ SchemaOf(r, c).kind = "object"
               /\ Satisfies(Payload(r, c), SchemaOf(r, c), FALSE))
      => /\ HasStep(r, "handler")
         /\ \A c \in Contexts : hctx[r][c] = Payload(r, c)

\* query and body have a schema and an extra field, and the handler received both
C9_Witness ==
  \E r \in ReqIds :
    /\ pc[r] = "handler"
    /\ StrictnessAsked(r) # "true"
    /\ \A c \in {"query", "body"} :
         /\ SchemaOf(r, c) = UserSchema
         /\ req[r][c] = Obj({"name", "extraField"})
         /\ hctx[r][c] = Obj({"name", "extraField"})

(***************************************************************************)
(* C10                                                                     *)
(***************************************************************************)
\* input c has an object schema and a payload with a key the schema does not declare,
\* and every input validated before it satisfies its schema strictly
UnknownKeyIn(r, c) ==
  /\ SchemaOf(r, c).kind = "object"
  /\ Payload(r, c).kind = "object"
  /\ Payload(r, c).keys \ SchemaOf(r, c).shape # {}
  /\ \A i \in 1..Len(ClaimedOrder) :
       \A j \in 1..Len(ClaimedOrder) :
         (i < j /\ ClaimedOrder[j] = c /\ HasSchema(SchemaOf(r, ClaimedOrder[i])))
           => /\ SchemaOf(r, ClaimedOrder[i]).kind = "object"
              /\ Satisfies(Payload(r, ClaimedOrder[i]), SchemaOf(r, ClaimedOrder[i]), TRUE)

\* C10: with strictness enabled, a payload (query, params or body) with an extra unknown
\* field is answered 400 with a detail whose message names the unrecognized key, and
\* the handler is not invoked.
C10_StrictRejectsUnknownKey ==
  \A r \in ReqIds :
    \A c \in Contexts :
      (Entered(r) /\ StrictnessAsked(r) = "true" /\ UnknownKeyIn(r, c))
        => /\ Done(r)
           /\ OnlyAdapterError(r, 400, "Validation failed")
           /\ Writes(r)[1].body.message = ValidationMessage(c)
           /\ \E i \in DOMAIN Writes(r)[1].body.details :
                /\ Writes(r)[1].body.details[i].message = "Unrecognized key"
                /\ Writes(r)[1].body.details[i].keys =
                     Payload(r, c).keys \ SchemaOf(r, c).shape
           /\ ~HasStep(r, "handler")
           /\ settled[r] = NotSettled

\* a strict route rejected a query that is valid but for its extra field
C10_Witness ==
  \E r \in ReqIds :
    /\ Done(r)
    /\ StrictnessAsked(r) = "true"
    /\ SchemaOf(r, "query") = UserSchema
    /\ req[r].query = Obj({"name", "extraField"})
    /\ OnlyAdapterError(r, 400, "Validation failed")
    /\ Writes(r)[1].body.details[1].keys = {"extraField"}

(***************************************************************************)
(* C11                                                                     *)
(***************************************************************************)
\* the writes of the adapter that are success responses (not error bodies)
SuccessWrites(r) == SelectSeq(AdapterWrites(r), LAMBDA w : w.body.error = "")
\* the status the handler left on the response object, 200 when it set none
StatusLeft(r) == IF cfg[r].handler.status = 0 THEN 200 ELSE cfg[r].handler.status
\* step a is recorded before step b
Before(r, a, b) ==
  \E i \in DOMAIN trace[r] : \E j \in DOMAIN trace[r] :
    i < j /\ trace[r][i].step = a /\ trace[r][j].step = b

\* C11: a success response sent by the adapter has the status the handler set on the
\* response object (200 when it set none) and, when the handler returned a value, that
\* value as its body; a handler that returns without sending, on a route whose response
\* is not validated, gets exactly that response.
C11_SuccessKeepsHandlerStatusAndBody ==
  \A r \in ReqIds :
    /\ \A i \in DOMAIN SuccessWrites(r) :
         /\ SuccessWrites(r)[i].status = StatusLeft(r)
         /\ settled[r].value # Undefined => SuccessWrites(r)[i].body.data = settled[r].value
    /\ (/\ Done(r)
        /\ settled[r].outcome = "return"
        /\ ~HandlerSent(r)
        /\ ~ResponseValidated(r))
         => Len(Writes(r)) = 1 /\ Len(SuccessWrites(r)) = 1

\* a handler set 404 and returned a body; the adapter sent that body with status 404
C11_Witness ==
  \E r \in ReqIds :
    /\ Done(r)
    /\ cfg[r].handler.status = 404
    /\ settled[r].value = Obj({"name"})
    /\ Len(Writes(r)) = 1
    /\ Writes(r)[1].by = "adapter"
    /\ Writes(r)[1].status = 404
    /\ Writes(r)[1].body = DataBody(Obj({"name"}))

(***************************************************************************)
(* C12                                                                     *)
(***************************************************************************)
ResponseValidations(r) == SelectSeq(Validations(r), LAMBDA t : t.context = "response (200)")

\* C12: when the handler returns undefined without having sent the response, an empty
\* object is substituted before response validation: what is validated against the 200
\* schema is {}, and a success response sent by the adapter has {} as its body.
C12_UndefinedBecomesEmptyObject ==
  \A r \in ReqIds :
    (/\ Done(r)
     /\ settled[r].outcome = "return"
     /\ settled[r].value = Undefined
     /\ ~HandlerSent(r))
      => /\ HasStep(r, "substitute")
         /\ Len(Writes(r)) = 1
         /\ \A i \in DOMAIN SuccessWrites(r) : SuccessWrites(r)[i].body = DataBody(Obj({}))
         /\ \A i \in DOMAIN ResponseValidations(r) : ResponseValidations(r)[i].data = Obj({})
         /\ ResponseValidated(r) => Before(r, "substitute", "validateData")
         /\ ~ResponseValidated(r) => Len(SuccessWrites(r)) = 1

\* undefined was returned on a route with a 200 schema requiring a name: {} was
\* validated, and rejected
C12_Witness ==
  \E r \in ReqIds :
    /\ Done(r)
    /\ settled[r].outcome = "return"
    /\ settled[r].value = Undefined
    /\ ~HandlerSent(r)
    /\ Len(ResponseValidations(r)) = 1
    /\ ResponseValidations(r)[1].data = Obj({})
    /\ OnlyAdapterError(r, 500, "Response validation failed")
    /\ Writes(r)[1].body.details[1].value = Obj({})

(***************************************************************************)
(* C20                                                                     *)
(***************************************************************************)
Warnings(r) == SelectSeq(log[r], LAMBDA l : l.level = "warn")
\* validation ran on an input and rejected it: the first input that does not satisfy
\* its schema has an object schema, so safeParse was reached
ValidationRejected(r) ==
  /\ Rejected(r) # {}
  /\ SchemaOf(r, WithSchema(r)[FirstRejected(r)]).kind = "object"

\* C20: an input validation failure is logged exactly when logValidationErrors is on:
\* then one warning, naming the failing input, is logged before the 400 is sent; with
\* the flag off the failing request logs nothing; a request whose inputs are accepted
\* logs no warning.
C20_InputFailureLoggedIffEnabled ==
  \A r \in ReqIds :
    /\ (Done(r) /\ ValidationRejected(r))
         => IF Truthy(appConfig.logValidationErrors)
            THEN /\ log[r] = <<[level |-> "warn",
                                text |-> ValidationMessage(WithSchema(r)[FirstRejected(r)])]>>
                 /\ Before(r, "warn", "send")
                 /\ OnlyAdapterError(r, 400, "Validation failed")
            ELSE /\ log[r] = <<>>
                 /\ ~HasStep(r, "warn")
    /\ Rejected(r) = {} => Warnings(r) = <<>>

\* with logging on, an invalid body was rejected and one warning names the body
C20_Witness ==
  \E r \in ReqIds :
    /\ Done(r)
    /\ Truthy(appConfig.logValidationErrors)
    /\ InputFails(r, "body")
    /\ SchemaOf(r, "body") = UserSchema
    /\ log[r] = <<[level |-> "warn", text |-> "Validation failed for body"]>>
    /\ OnlyAdapterError(r, 400, "Validation failed")

(***************************************************************************)
(* C13                                                                     *)
(***************************************************************************)
\* the upper-case name of each per-method registration function
UpperCased ==
  {<<"get", "GET">>, <<"post", "POST">>, <<"put", "PUT">>, <<"patch", "PATCH">>,
   <<"delete", "DELETE">>, <<"head", "HEAD">>, <<"options", "OPTIONS">>,
   <<"trace", "TRACE">>, <<"all", "ALL">>}
FirstPath(path) == IF path.kind = "array" THEN Head(path.value) ELSE path.value

\* C13: after n registrations getRoutes returns n entries in registration order, the
\* i-th holding the i-th registration's method in upper case, its path (the first of an
\* array of paths), its schema and its metadata.
C13_RegistryRecordsRegistrations ==
  /\ Len(routes) = Len(served)
  /\ \A i \in DOMAIN served :
       /\ <<served[i].method, routes[i].method>> \in UpperCased
       /\ routes[i].path = FirstPath(served[i].path)
       /\ routes[i].schema = served[i].config.schema
       /\ routes[i].metadata = served[i].config.metadata

\* two registrations, the second with an array of paths: its entry has the first path
C13_Witness ==
  /\ Len(routes) = 2
  /\ served[1].method = "put"
  /\ served[1].path = Str(PUsers)
  /\ served[2].method = "get"
  /\ served[2].path = PathArray(<<PUserId, PUsers>>)
  /\ routes[2] = RouteDefinition("GET", PUserId, served[2].config.schema,
                                 served[2].config.metadata)

(***************************************************************************)
(* C14                                                                     *)
(***************************************************************************)
IsPrefix(a, b) == Len(a) <= Len(b) /\ SubSeq(b, 1, Len(a)) = a

\* C14: whatever happens (registrations, requests, OpenAPI generation, callers using
\* the list getRoutes returned), the registry before a step is a prefix of the registry
\* after it: no entry is removed, reordered or altered.
C14_RegistryAppendOnly == [][IsPrefix(routes, routes')]_vars

(***************************************************************************)
(* The generated document and the routes it was generated from.            *)
(***************************************************************************)
Generated == doc.by # "none" /\ ~doc.threw
DocRoutes == DOMAIN doc.routes
HasOperation(pathKey, method) ==
  pathKey \in DOMAIN doc.paths /\ method \in DOMAIN doc.paths[pathKey]
KeyOf(i) == pathKeyOf(doc.routes[i].path)
MethodOf(i) == toLowerCase(doc.routes[i].method)
SameRoute(i, j) ==
  doc.routes[i].method = doc.routes[j].method /\ doc.routes[i].path = doc.routes[j].path
\* no later registration of the same method and path
LastOfItsKey(i) == \A j \in DocRoutes : (j > i) => ~SameRoute(i, j)
\* the operation stored under the key of route i is the one made from route i
Documented(i) ==
  /\ HasOperation(KeyOf(i), MethodOf(i))
  /\ doc.paths[KeyOf(i)][MethodOf(i)].index = i - 1
OperationOf(i) == doc.paths[KeyOf(i)][MethodOf(i)]

(***************************************************************************)
(* C15                                                                     *)
(***************************************************************************)
\* C15: registering the same method and path twice leaves two registry entries, and the
\* generated document has one operation under that path and method, the one derived
\* from the second registration.
C15_SecondRegistrationWins ==
  /\ \A i \in DOMAIN served : \A j \in DOMAIN served :
       (i < j /\ served[i].method = served[j].method /\ served[i].path = served[j].path)
         => /\ j \in DOMAIN routes
            /\ routes[i].method = routes[j].method
            /\ routes[i].path = routes[j].path
  /\ Generated =>
       \A i \in DocRoutes : \A j \in DocRoutes :
         (i < j /\ SameRoute(i, j) /\ LastOfItsKey(j)) => Documented(j)

(***************************************************************************)
(* C16                                                                     *)
(***************************************************************************)
\* C16: a route registered without a schema is in the generated document, under its
\* path and lower-cased method, with the summary and description of its metadata and a
\* default response 200 described as "Success".
C16_RouteWithoutSchemaIsDocumented ==
  Generated =>
    \A i \in DocRoutes :
      (~doc.routes[i].schema.declared /\ LastOfItsKey(i))
        => /\ Documented(i)
           /\ ~Falsy(doc.routes[i].metadata.summary)
                => OperationOf(i).summary = <<doc.routes[i].metadata.summary>>
           /\ ~Falsy(doc.routes[i].metadata.description)
                => OperationOf(i).description = doc.routes[i].metadata.description
           /\ DOMAIN OperationOf(i).responses = {200}
           /\ OperationOf(i).responses[200].description = <<"Success">>

(***************************************************************************)
(* C17                                                                     *)
(***************************************************************************)
\* the top-level properties of a schema, and those it requires
Properties(schema) ==
  IF schema.kind = "object" THEN schema.shape \cup schema.optional ELSE {}
Required(schema) == schema.shape
Parameter(name, where, required) == [name |-> name, in |-> where, required |-> required]
ParametersOf(i) == {OperationOf(i).parameters[k] : k \in DOMAIN OperationOf(i).parameters}

\* C17: the parameters of a route's operation are one parameter in "path", required,
\* for each property of its params schema, and one parameter in "query" for each
\* property of its query schema, required exactly when the schema requires the
\* property; nothing else is listed.
C17_ParametersFromParamsAndQuery ==
  Generated =>
    \A i \in DocRoutes :
      Documented(i) =>
        /\ ParametersOf(i) =
             {Parameter(n, "path", TRUE) : n \in Properties(doc.routes[i].schema.params)}
               \cup {Parameter(n, "query", n \in Required(doc.routes[i].schema.query)) :
                       n \in Properties(doc.routes[i].schema.query)}
        /\ Len(OperationOf(i).parameters) =
             Cardinality(Properties(doc.routes[i].schema.params))
               + Cardinality(Properties(doc.routes[i].schema.query))

\* a route with a query schema (one required, one optional property) and a params
\* schema: the operation lists the two query parameters and the path parameter
C17_Witness ==
  /\ Generated
  /\ doc.by = "core"
  /\ \E i \in DocRoutes :
       /\ Documented(i)
       /\ doc.routes[i].schema.query = SearchSchema
       /\ doc.routes[i].schema.params = IdSchema
       /\ OperationOf(i).parameters =
            <<Parameter("name", "query", TRUE), Parameter("search", "query", FALSE),
              Parameter("id", "path", TRUE)>>

(***************************************************************************)
(* C18                                                                     *)
(***************************************************************************)
\* C18: generation always returns a document, also when the conversion of a schema of
\* the route list fails, and the document has an operation for every route that
\* declares a schema, the route of the failing schema included.
C18_FailingConversionNeverAborts ==
  doc.by # "none" =>
    /\ ~doc.threw
    /\ \A i \in DocRoutes :
         (doc.routes[i].schema.declared /\ LastOfItsKey(i)) => Documented(i)

(***************************************************************************)
(* C19                                                                     *)
(***************************************************************************)
\* a path with each segment of the form :name rewritten to {name}, from position i on
RECURSIVE bracedSegments(_, _)
bracedSegments(p, i) ==
  IF i > Len(p) THEN <<>>
  ELSE IF /\ p[i] = ":"
          /\ (i = 1 \/ p[i - 1] = "/")
          /\ i < Len(p)
          /\ p[i + 1] # "/"
  THEN <<"{">> \o SubSeq(p, i + 1, nameEnd(p, i + 1)) \o <<"}">>
         \o bracedSegments(p, nameEnd(p, i + 1) + 1)
  ELSE <<p[i]>> \o bracedSegments(p, i + 1)

\* C19: the operation of every route is stored under its path, with every
\* colon-prefixed segment :name rewritten to {name}, and its lower-cased method; the
\* routes of other methods on the same path are stored beside it, none replacing another.
C19_OperationsKeyedByBracedPath ==
  Generated =>
    \A i \in DocRoutes :
      /\ HasOperation(bracedSegments(doc.routes[i].path, 1), MethodOf(i))
      /\ \A j \in DocRoutes :
           doc.routes[j].path = doc.routes[i].path
             => HasOperation(bracedSegments(doc.routes[i].path, 1), MethodOf(j))

(***************************************************************************)
(* C21                                                                     *)
(***************************************************************************)
\* the response was validated and did not satisfy the 200 schema
ResponseValidationFailed(r) ==
  /\ ResponseValidated(r)
  /\ responseSchema(cfg[r]).kind = "object"
  /\ ~Satisfies(OrEmpty(settled[r].value), responseSchema(cfg[r]), FALSE)

\* C21: a request that ends in a response validation failure or in an exception thrown
\* by the handler leaves at least one entry in the server's log, whatever
\* logValidationErrors is.
C21_IncidentsAlwaysLogged ==
  \A r \in ReqIds :
    (Done(r) /\ (settled[r].outcome = "throw" \/ ResponseValidationFailed(r)))
      => log[r] # <<>>

(***************************************************************************)
(* C25                                                                     *)
(***************************************************************************)
\* every input of the request satisfies its schema under the strictness asked for
InputsConform(r) ==
  \A c \in Contexts :
    HasSchema(SchemaOf(r, c))
      => Satisfies(Payload(r, c), SchemaOf(r, c), Truthy(StrictnessAsked(r)))

InEffect(r) == Truthy(routeValidateResponse(appConfig, cfg[r]))

\* C28: the response is validated against the schema declared for status 200 and no
\* other, whatever status the handler set: every response validation uses the 200
\* schema, a route without a 200 schema is never response-validated, and a route with
\* one, under validation in effect, has the body the adapter is about to send validated
\* once.
C28_OnlyThe200SchemaValidates ==
  \A r \in ReqIds :
    /\ \A i \in DOMAIN ResponseValidations(r) :
         /\ 200 \in DOMAIN cfg[r].schema.responses
         /\ ResponseValidations(r)[i].schema = cfg[r].schema.responses[200]
    /\ 200 \notin DOMAIN cfg[r].schema.responses => ~ResponseValidated(r)
    /\ (Done(r) /\ settled[r].outcome = "return" /\ ~HandlerSent(r) /\ InEffect(r)
          /\ 200 \in DOMAIN cfg[r].schema.responses)
         => Len(ResponseValidations(r)) = 1

\* a handler set 404 on a route declaring schemas for 200 and for 404; the body was
\* validated against the 200 schema
C28_Witness ==
  \E r \in ReqIds :
    /\ Done(r)
    /\ res[r].statusCode = 404
    /\ DOMAIN cfg[r].schema.responses = {200, 404}
    /\ cfg[r].schema.responses[200] # cfg[r].schema.responses[404]
    /\ Len(ResponseValidations(r)) = 1
    /\ ResponseValidations(r)[1].schema = cfg[r].schema.responses[200]
    /\ SuccessWrites(r) # <<>>

(***************************************************************************)
(* C22                                                                     *)
(***************************************************************************)
\* the request ended in an error: an input validation threw (the handler was never
\* called), the handler threw, or the response validation threw (development)
EndedInError(r) ==
  \/ settled[r] = NotSettled
  \/ settled[r].outcome = "throw"
  \/ nodeEnv = "development" /\ ResponseValidationFailed(r)

StateOf(t) ==
  CASE t.step = "validateData" /\ t.context \in Contexts -> 1
    [] t.step = "handler" -> 2
    [] t.step = "substitute" -> 3
    [] t.step = "validateData" /\ t.context \notin Contexts -> 3
    [] t.step = "send" -> 4
    [] t.step = "catch" -> 5
    [] OTHER -> 0
\* the states a request went through, in order (console output is no state)
StatesOf(r) ==
  [i \in DOMAIN SelectSeq(trace[r], LAMBDA t : StateOf(t) # 0) |->
     StateOf(SelectSeq(trace[r], LAMBDA t : StateOf(t) # 0)[i])]
\* the schemas of the inputs of the request
InputSchemas(r) == {c \in Contexts : HasSchema(SchemaOf(r, c))}

Unset(key) == given[key] \in {"absent", "undef"}

Apps == DOMAIN instances.apps

\* C30: each app owns its registry: an app just created has an empty route list and
\* its creation changes no other app's list; a registration changes the list of one
\* app only, every other app's getRoutes returns what it returned before.
C30_EachAppOwnsItsRegistry ==
  [][/\ \A a \in Apps : a \in DOMAIN instances'.apps
     /\ \A a \in DOMAIN instances'.apps \ Apps :
          /\ getRoutes(instances', a) = <<>>
          /\ \A b \in Apps : getRoutes(instances', b) = getRoutes(instances, b)
     /\ \A a \in Apps : \A b \in Apps \ {a} :
          getRoutes(instances', a) # getRoutes(instances, a)
            => getRoutes(instances', b) = getRoutes(instances, b)]_vars

\* two apps, the first with two routes registered and the second with one
C30_Witness ==
  /\ Len(instances.apps) = 2
  /\ Len(getRoutes(instances, 1)) = 2
  /\ Len(getRoutes(instances, 2)) = 1
  /\ getRoutes(instances, 2)[1] # getRoutes(instances, 1)[1]

(***************************************************************************)
(* C29                                                                     *)
(***************************************************************************)
\* what the handler of a route does to the response object before it settles
handled(config, response) ==
  IF config.handler.sends
  THEN send([response EXCEPT !.statusCode = IF config.handler.status = 0 THEN @
                                            ELSE config.handler.status],
            "handler", DataBody(Obj({"name"})),
            IF config.handler.status = 0 THEN response.statusCode ELSE config.handler.status)
  ELSE [response EXCEPT !.statusCode = IF config.handler.status = 0 THEN @
                                       ELSE config.handler.status]
\* how the handler of a route settles
settles(config) ==
  [outcome |-> config.handler.outcome, value |-> config.handler.value,
   thrown |-> config.handler.thrown]
\* the request handled alone, from its arrival to its end
resumedAlone(e, o) ==
  [res |-> o.res, ctx |-> e.ctx, log |-> e.log \o o.log, trace |-> e.trace \o o.trace]
enteredAlone(app, env, config, e) ==
  IF e.pc = "done" THEN [res |-> e.res, ctx |-> e.ctx, log |-> e.log, trace |-> e.trace]
  ELSE resumedAlone(e, resume(app, env, config, handled(config, e.res), settles(config)))
Alone(app, env, config, request) ==
  enteredAlone(app, env, config, enter(app, config, request, NewResponse))
Outcome(r) == [res |-> res[r], ctx |-> hctx[r], log |-> log[r], trace |-> trace[r]]

\* C29: requests in flight together do not interfere: a handler that has been called
\* has received the validated query, params and body of its own request, and the
\* outcome of a finished request (response object, handler context, console output,
\* steps) is the outcome of handling that request alone, whatever the other requests
\* did in between.
C29_RequestsDoNotInterfere ==
  \A r \in ReqIds :
    /\ pc[r] \in {"handler", "settled"}
         => hctx[r] = enter(appConfig, cfg[r], req[r], NewResponse).ctx
    /\ Done(r) => Outcome(r) = Alone(appConfig, nodeEnv, cfg[r], req[r])
    /\ pc[r] \in {"none", "received"} => Writes(r) = <<>> /\ hctx[r] = NoCtx

\* one request has been answered while another, for another route and with another
\* body, is still suspended in its handler
C29_Witness ==
  \E r \in ReqIds : \E q \in ReqIds \ {r} :
    /\ Done(r)
    /\ pc[q] = "handler"
    /\ cfg[r] # cfg[q]
    /\ hctx[r].body # hctx[q].body
    /\ HasStep(r, "handler")
    /\ Len(Writes(r)) = 1
    /\ Writes(q) = <<>>

(***************************************************************************)
(* C23                                                                     *)
(***************************************************************************)
\* the middlewares configured on the route of the request
Configured(r) ==
  IF cfg[r].middlewares.kind = "array" THEN cfg[r].middlewares.list ELSE <<>>
\* the query as the client sent it: what the first middleware was given
ClientQuery(r) ==
  IF MiddlewareSteps(r) = <<>> THEN req[r].query ELSE MiddlewareSteps(r)[1].data
\* the query after the first n configured middlewares, in configured order
RECURSIVE QueryAfter(_, _)
QueryAfter(r, n) ==
  IF n = 0 THEN ClientQuery(r)
  ELSE Obj((OrEmpty(QueryAfter(r, n - 1)).keys \ Configured(r)[n].removes)
             \cup Configured(r)[n].adds)
\* the adapter has started on the request
Started(r) == Validations(r) # <<>> \/ Entered(r)

HandlerCalls(r) == SelectSeq(trace[r], LAMBDA t : t.step = "handler")
\* never two responses, never two calls of the handler, and one response at the end
OneResponse(r) ==
  /\ Len(Writes(r)) <= 1
  /\ Len(HandlerCalls(r)) <= 1
  /\ Done(r) => Len(Writes(r)) = 1

====
